---- MODULE Spec2Model ----
(***************************************************************************)
(* The edge worker of src/worker/index-fixed.ts: worker.fetch classifies a  *)
(* request by its URL path, delegates it to the asset binding or to the     *)
(* application built by createApp, and sets a Content-Security-Policy       *)
(* header on HTML asset responses.                                          *)
(*                                                                          *)
(* Text is modelled as a sequence of one-character strings, so that         *)
(* startsWith and includes are computed and letter case is distinguished.   *)
(* An object (a Response) carries an identity: the invocation and the place *)
(* that created it.                                                         *)
(***************************************************************************)
EXTENDS Integers, Sequences, FiniteSets, TLC

\* Number of invocations of worker.fetch that may be in flight together.
NumInvocations == 2

Invocations == 1..NumInvocations

\* The one invocation of the sequential specification.
Solo == {1}

(***************************************************************************)
(* Text                                                                     *)
(***************************************************************************)

\* String.prototype.startsWith
StartsWith(s, prefix) ==
    /\ Len(s) >= Len(prefix)
    /\ SubSeq(s, 1, Len(prefix)) = prefix

\* String.prototype.includes
Includes(s, sub) ==
    \E k \in 1..(Len(s) - Len(sub) + 1) : SubSeq(s, k, k + Len(sub) - 1) = sub

\* Position of the first character of s, at or after from, that is in chars;
\* Len(s) + 1 when there is none.
RECURSIVE IndexOfAny(_, _, _)
IndexOfAny(s, from, chars) ==
    IF from > Len(s) THEN Len(s) + 1
    ELSE IF s[from] \in chars THEN from
    ELSE IndexOfAny(s, from + 1, chars)

\* new URL(u).pathname for an absolute hierarchical URL scheme://authority...:
\* what follows the authority up to the query or fragment, "/" when empty.
Pathname(u) ==
    LET colon == IndexOfAny(u, 1, {":"})
        auth  == colon + 3
        start == IndexOfAny(u, auth, {"/", "?", "#"})
        stop  == IndexOfAny(u, start, {"?", "#"})
        path  == SubSeq(u, start, stop - 1)
    IN  IF path = <<>> THEN <<"/">> ELSE path

(***************************************************************************)
(* Headers and responses                                                    *)
(***************************************************************************)

\* Header names, as the Headers class keeps them (lower case).
ContentType == "content-type"
ContentSecurityPolicy == "content-security-policy"
CacheControl == "cache-control"
HeaderNames == {ContentType, ContentSecurityPolicy, CacheControl}

NoHeaders == [n \in HeaderNames |-> <<>>]

\* Headers.prototype.get joins the values of a name with ", ".
RECURSIVE Join(_)
Join(vals) ==
    IF Len(vals) = 1 THEN Head(vals)
    ELSE Head(vals) \o <<",", " ">> \o Join(Tail(vals))

HeadersHas(h, name) == h[name] # <<>>
HeadersGet(h, name) == Join(h[name])

\* Headers.prototype.set: one value in place of all values of the name.
HeadersSet(h, name, value) == [h EXCEPT ![name] = <<value>>]

\* The value set at lines 26-33: the concatenation of the eight literals.
CspValue ==
    <<"default-src 'self'; ">> \o
    <<"script-src 'self' 'unsafe-eval' 'unsafe-inline' data: blob:; ">> \o
    <<"style-src 'self' 'unsafe-inline' data:; ">> \o
    <<"worker-src 'self' blob:; ">> \o
    <<"child-src 'self' blob:; ">> \o
    <<"font-src 'self' data:; ">> \o
    <<"img-src 'self' data: blob:; ">> \o
    <<"connect-src 'self' ws: wss: https:;">>

\* 'text/html', the argument of includes at line 15.
TextHtml == <<"t","e","x","t","/","h","t","m","l">>

\* '/api/', the argument of startsWith at line 10.
ApiPrefix == <<"/","a","p","i","/">>

\* Status of the response built in the catch block.
ApiErrorStatus == 500

\* A response object: its identity and what it carries.
Made(i, site, content) ==
    [id         |-> [inv |-> i, site |-> site],
     status     |-> content.status,
     statusText |-> content.statusText,
     headers    |-> content.headers,
     body       |-> content.body]

NoResponse ==
    [id         |-> [inv |-> 0, site |-> "none"],
     status     |-> 0,
     statusText |-> "",
     headers    |-> NoHeaders,
     body       |-> ""]

NoError == "none"

(***************************************************************************)
(* Inputs                                                                   *)
(***************************************************************************)

Origin == <<"h","t","t","p","s",":","/","/","h">>

PathInputs ==
    { <<>>,
      <<"/">>,
      <<"/","i","n","d","e","x",".","h","t","m","l">>,
      <<"/","a","s","s","e","t","s","/","a","p","p",".","j","s">>,
      <<"/","a","p","i">>,
      <<"/","a","p","i","x">>,
      <<"/","A","P","I","/","x">>,
      <<"/","x","/","a","p","i","/">>,
      <<"/","a","p","i","/">>,
      <<"/","a","p","i","/","a","g","e","n","t">> }

QueryInputs == { <<>>, <<"?","n","e","x","t","=","/","a","p","i","/">> }

\* Request URLs the runtime may deliver.
Urls == { Origin \o p \o q : p \in PathInputs, q \in QueryInputs }

ContentTypeInputs ==
    { <<"t","e","x","t","/","h","t","m","l">>,
      <<"t","e","x","t","/","h","t","m","l",";"," ","c","h","a","r","s","e","t","=","u","t","f","-","8">>,
      <<"T","e","x","t","/","H","T","M","L">>,
      <<"T","E","X","T","/","H","T","M","L",";"," ","c","h","a","r","s","e","t","=","u","t","f","-","8">>,
      <<"t","e","x","t","/","h","t","m">>,
      <<"a","p","p","l","i","c","a","t","i","o","n","/","j","a","v","a","s","c","r","i","p","t">> }

PriorCsp == { <<"d","e","f","a","u","l","t","-","s","r","c"," ","'","n","o","n","e","'">>, <<"i","m","g","-","s","r","c"," ","*">> }

HeaderInputs ==
    { [n \in HeaderNames |->
         CASE n = ContentType           -> ct
           [] n = ContentSecurityPolicy -> csp
           [] n = CacheControl          -> cc] :
      ct  \in {<<>>} \cup { <<v>> : v \in ContentTypeInputs },
      csp \in {<<>>} \cup { <<v>> : v \in PriorCsp } \cup { <<v, w>> : v, w \in PriorCsp },
      cc  \in {<<>>, << <<"n","o","-","c","a","c","h","e">> >>} }

StatusInputs == { <<200, "OK">>, <<404, "Not Found">> }

BodyInputs == { "<html>...", "" }

\* What a collaborator's response may carry.
Contents ==
    { [status |-> s[1], statusText |-> s[2], headers |-> h, body |-> b] :
      s \in StatusInputs, h \in HeaderInputs, b \in BodyInputs }

\* Failures a collaborator may raise.
Errors == { "TypeError: e1", "Error: e2" }

\* The reduced inputs of the concurrent specification.
ConcUrls == { Origin \o p : p \in { <<"/","i","n","d","e","x",".","h","t","m","l">>, <<"/","a","p","i","/","a","g","e","n","t">> } }

ConcContents ==
    { c \in Contents :
        /\ c.status = 200
        /\ c.body = "<html>..."
        /\ c.headers[CacheControl] = <<>>
        /\ Len(c.headers[ContentSecurityPolicy]) <= 1
        /\ c.headers[ContentType] \in
             { << <<"t","e","x","t","/","h","t","m","l">> >>, << <<"T","e","x","t","/","H","T","M","L">> >>, << <<"a","p","p","l","i","c","a","t","i","o","n","/","j","a","v","a","s","c","r","i","p","t">> >> } }

ConcErrors == { "TypeError: e1" }

(***************************************************************************)
(* worker.fetch                                                             *)
(***************************************************************************)

VARIABLES
    pc,             \* where each invocation stands
    request,        \* the URL of the request each invocation received
    collab,         \* what the collaborator gave each invocation
    result,         \* how each invocation's promise settled
    console,        \* the console.error calls of each invocation
    assetCalls,     \* calls of env.ASSETS.fetch by each invocation
    createAppCalls, \* calls of createApp by each invocation
    appFetchCalls   \* calls of app.fetch by each invocation

vars == <<pc, request, collab, result, console,
          assetCalls, createAppCalls, appFetchCalls>>

NoOutcome == [kind |-> "none", resp |-> NoResponse, error |-> NoError]

Init ==
    /\ pc = [i \in Invocations |-> "idle"]
    /\ request = [i \in Invocations |-> <<>>]
    /\ collab = [i \in Invocations |-> NoOutcome]
    /\ result = [i \in Invocations |-> NoOutcome]
    /\ console = [i \in Invocations |-> <<>>]
    /\ assetCalls = [i \in Invocations |-> 0]
    /\ createAppCalls = [i \in Invocations |-> 0]
    /\ appFetchCalls = [i \in Invocations |-> 0]

\* IsApiPath with the prefix written without its closing slash.
IsApiPath_noSlash(pathname) == StartsWith(pathname, <<"/","a","p","i">>)

\* Line 10: pathname.startsWith('/api/')
IsApiPath(pathname) == StartsWith(pathname, ApiPrefix)

\* IsHtml matching on the type 'text/' alone.
IsHtml_anyText(response) ==
    /\ HeadersHas(response.headers, ContentType)
    /\ Includes(HeadersGet(response.headers, ContentType), <<"t","e","x","t","/">>)

\* Line 15: response.headers.get('content-type')?.includes('text/html')
IsHtml(response) ==
    /\ HeadersHas(response.headers, ContentType)
    /\ Includes(HeadersGet(response.headers, ContentType), TextHtml)

\* Rewrite with Headers.append in place of Headers.set.
Rewrite_append(response, i) ==
    [id         |-> [inv |-> i, site |-> "new Response:17"],
     status     |-> response.status,
     statusText |-> response.statusText,
     headers    |-> [response.headers EXCEPT
                       ![ContentSecurityPolicy] = Append(@, CspValue)],
     body       |-> response.body]

\* Rewrite with a nonce taken from a module-level count of served requests.
Rewrite_counted(response, i) ==
    [id         |-> [inv |-> i, site |-> "new Response:17"],
     status     |-> response.status,
     statusText |-> response.statusText,
     headers    |-> HeadersSet(response.headers, ContentSecurityPolicy,
                       CspValue \o <<ToString(Cardinality({j \in Invocations : pc[j] = "done"}))>>),
     body       |-> response.body]

\* Lines 17-34: a new Response with the body, status, status text and headers
\* of the given one, and then the Content-Security-Policy header set.
Rewrite(response, i) ==
    [id         |-> [inv |-> i, site |-> "new Response:17"],
     status     |-> response.status,
     statusText |-> response.statusText,
     headers    |-> HeadersSet(response.headers, ContentSecurityPolicy, CspValue),
     body       |-> response.body]

\* Line 48: new Response('API Error', { status: 500 }); a string body gives the
\* response its text/plain content type.
ApiError(i) ==
    [id         |-> [inv |-> i, site |-> "new Response:48"],
     status     |-> ApiErrorStatus,
     statusText |-> "",
     headers    |-> HeadersSet(NoHeaders, ContentType,
                       <<"t","e","x","t","/","p","l","a","i","n",";",
                         "c","h","a","r","s","e","t","=","U","T","F","-","8">>),
     body       |-> "API Error"]

\* Line 47: console.error('API request failed:', error)
Logged(error) == [label |-> "API request failed:", error |-> error]

\* AssetFetch calling env.ASSETS.fetch a second time.
AssetFetch_twice(i, url) ==
    /\ pc[i] = "idle"
    /\ ~IsApiPath(Pathname(url))
    /\ request' = [request EXCEPT ![i] = url]
    /\ assetCalls' = [assetCalls EXCEPT ![i] = @ + 2]
    /\ collab' = [collab EXCEPT ![i].kind = "pending"]
    /\ pc' = [pc EXCEPT ![i] = "awaitAssets"]
    /\ UNCHANGED <<result, console, createAppCalls, appFetchCalls>>

\* Lines 5-12, asset branch: the path is not under /api/; env.ASSETS.fetch is
\* called and the invocation waits for its promise.
AssetFetch(i, url) ==
    /\ pc[i] = "idle"
    /\ ~IsApiPath(Pathname(url))
    /\ request' = [request EXCEPT ![i] = url]
    /\ assetCalls' = [assetCalls EXCEPT ![i] = @ + 1]
    /\ collab' = [collab EXCEPT ![i].kind = "pending"]
    /\ pc' = [pc EXCEPT ![i] = "awaitAssets"]
    /\ UNCHANGED <<result, console, createAppCalls, appFetchCalls>>

\* Lines 12-39: the asset promise is fulfilled; an HTML response is rewritten,
\* any other is returned as it is.
AssetResolve(i, content) ==
    /\ pc[i] = "awaitAssets"
    /\ LET response == Made(i, "ASSETS.fetch", content)
       IN  /\ collab' = [collab EXCEPT ![i] =
                  [kind |-> "response", resp |-> response, error |-> NoError]]
           /\ result' = [result EXCEPT ![i] =
                  [kind  |-> "returned",
                   resp  |-> IF IsHtml(response) THEN Rewrite(response, i)
                             ELSE response,
                   error |-> NoError]]
    /\ pc' = [pc EXCEPT ![i] = "done"]
    /\ UNCHANGED <<request, console, assetCalls, createAppCalls, appFetchCalls>>

\* Line 12: the asset promise is rejected; the await throws outside any try
\* block and the invocation's promise is rejected with the same error.
AssetReject(i, error) ==
    /\ pc[i] = "awaitAssets"
    /\ collab' = [collab EXCEPT ![i] =
           [kind |-> "rejected", resp |-> NoResponse, error |-> error]]
    /\ result' = [result EXCEPT ![i] =
           [kind |-> "thrown", resp |-> NoResponse, error |-> error]]
    /\ pc' = [pc EXCEPT ![i] = "done"]
    /\ UNCHANGED <<request, console, assetCalls, createAppCalls, appFetchCalls>>

\* Lines 5-10 and 43-45: the path is under /api/; createApp returns the
\* application and app.fetch returns a promise, which the invocation returns.
ApiDispatch(i, url) ==
    /\ pc[i] = "idle"
    /\ IsApiPath(Pathname(url))
    /\ request' = [request EXCEPT ![i] = url]
    /\ createAppCalls' = [createAppCalls EXCEPT ![i] = @ + 1]
    /\ appFetchCalls' = [appFetchCalls EXCEPT ![i] = @ + 1]
    /\ collab' = [collab EXCEPT ![i].kind = "pending"]
    /\ pc' = [pc EXCEPT ![i] = "awaitApp"]
    /\ UNCHANGED <<result, console, assetCalls>>

\* Lines 44 and 46-48: createApp throws; the catch block logs the error and
\* returns the 500 response.
ApiCreateAppThrows(i, url, error) ==
    /\ pc[i] = "idle"
    /\ IsApiPath(Pathname(url))
    /\ request' = [request EXCEPT ![i] = url]
    /\ createAppCalls' = [createAppCalls EXCEPT ![i] = @ + 1]
    /\ collab' = [collab EXCEPT ![i] =
           [kind |-> "createAppThrew", resp |-> NoResponse, error |-> error]]
    /\ console' = [console EXCEPT ![i] = Append(@, Logged(error))]
    /\ result' = [result EXCEPT ![i] =
           [kind |-> "returned", resp |-> ApiError(i), error |-> NoError]]
    /\ pc' = [pc EXCEPT ![i] = "done"]
    /\ UNCHANGED <<assetCalls, appFetchCalls>>

\* Lines 44-48: app.fetch throws before it returns a promise; the catch block
\* logs the error and returns the 500 response.
ApiFetchThrows(i, url, error) ==
    /\ pc[i] = "idle"
    /\ IsApiPath(Pathname(url))
    /\ request' = [request EXCEPT ![i] = url]
    /\ createAppCalls' = [createAppCalls EXCEPT ![i] = @ + 1]
    /\ appFetchCalls' = [appFetchCalls EXCEPT ![i] = @ + 1]
    /\ collab' = [collab EXCEPT ![i] =
           [kind |-> "fetchThrew", resp |-> NoResponse, error |-> error]]
    /\ console' = [console EXCEPT ![i] = Append(@, Logged(error))]
    /\ result' = [result EXCEPT ![i] =
           [kind |-> "returned", resp |-> ApiError(i), error |-> NoError]]
    /\ pc' = [pc EXCEPT ![i] = "done"]
    /\ UNCHANGED <<assetCalls>>

\* AppResolve passing the application's response through the HTML rewrite.
AppResolve_rewritten(i, content) ==
    /\ pc[i] = "awaitApp"
    /\ LET response == Made(i, "app.fetch", content)
       IN  /\ collab' = [collab EXCEPT ![i] =
                  [kind |-> "response", resp |-> response, error |-> NoError]]
           /\ result' = [result EXCEPT ![i] =
                  [kind  |-> "returned",
                   resp  |-> IF IsHtml(response) THEN Rewrite(response, i)
                             ELSE response,
                   error |-> NoError]]
    /\ pc' = [pc EXCEPT ![i] = "done"]
    /\ UNCHANGED <<request, console, assetCalls, createAppCalls, appFetchCalls>>

\* Line 45: the promise app.fetch returned is fulfilled; the invocation's
\* promise is fulfilled with the same response.
AppResolve(i, content) ==
    /\ pc[i] = "awaitApp"
    /\ LET response == Made(i, "app.fetch", content)
       IN  /\ collab' = [collab EXCEPT ![i] =
                  [kind |-> "response", resp |-> response, error |-> NoError]]
           /\ result' = [result EXCEPT ![i] =
                  [kind |-> "returned", resp |-> response, error |-> NoError]]
    /\ pc' = [pc EXCEPT ![i] = "done"]
    /\ UNCHANGED <<request, console, assetCalls, createAppCalls, appFetchCalls>>

\* Line 45: the promise app.fetch returned is rejected. It was returned without
\* await, so the function has left the try block: the catch block does not run
\* and the invocation's promise is rejected with the same error.
AppReject(i, error) ==
    /\ pc[i] = "awaitApp"
    /\ collab' = [collab EXCEPT ![i] =
           [kind |-> "rejected", resp |-> NoResponse, error |-> error]]
    /\ result' = [result EXCEPT ![i] =
           [kind |-> "thrown", resp |-> NoResponse, error |-> error]]
    /\ pc' = [pc EXCEPT ![i] = "done"]
    /\ UNCHANGED <<request, console, assetCalls, createAppCalls, appFetchCalls>>

\* One invocation, over all the inputs.
Next ==
    \E i \in Solo :
        \/ \E url \in Urls : AssetFetch(i, url)
        \/ \E content \in Contents : AssetResolve(i, content)
        \/ \E error \in Errors : AssetReject(i, error)
        \/ \E url \in Urls : ApiDispatch(i, url)
        \/ \E url \in Urls, error \in Errors : ApiCreateAppThrows(i, url, error)
        \/ \E url \in Urls, error \in Errors : ApiFetchThrows(i, url, error)
        \/ \E content \in Contents : AppResolve(i, content)
        \/ \E error \in Errors : AppReject(i, error)

Spec == Init /\ [][Next]_vars

\* Invocations in flight together, over the reduced inputs.
NextConc ==
    \E i \in Invocations :
        \/ \E url \in ConcUrls : AssetFetch(i, url)
        \/ \E content \in ConcContents : AssetResolve(i, content)
        \/ \E error \in ConcErrors : AssetReject(i, error)
        \/ \E url \in ConcUrls : ApiDispatch(i, url)
        \/ \E url \in ConcUrls, error \in ConcErrors : ApiCreateAppThrows(i, url, error)
        \/ \E url \in ConcUrls, error \in ConcErrors : ApiFetchThrows(i, url, error)
        \/ \E content \in ConcContents : AppResolve(i, content)
        \/ \E error \in ConcErrors : AppReject(i, error)

SpecConc == Init /\ [][NextConc]_vars

(***************************************************************************)
(* Properties                                                               *)
(***************************************************************************)

\* The lower-case form of a character.
Lower(c) ==
    CASE c = "T" -> "t" [] c = "E" -> "e" [] c = "X" -> "x" [] c = "H" -> "h"
      [] c = "M" -> "m" [] c = "L" -> "l" [] c = "A" -> "a" [] c = "P" -> "p"
      [] c = "I" -> "i" [] c = "U" -> "u" [] c = "F" -> "f" [] OTHER -> c

LowerText(s) == [k \in 1..Len(s) |-> Lower(s[k])]

\* The URL path of invocation i's request is under the prefix /api/.
UnderApi(i) == StartsWith(Pathname(request[i]), <<"/","a","p","i","/">>)

\* The content-type of a response contains text/html as written.
HasTextHtml(r) ==
    /\ r.headers[ContentType] # <<>>
    /\ Includes(HeadersGet(r.headers, ContentType), <<"t","e","x","t","/","h","t","m","l">>)

\* The content-type of a response contains text/html in any letter case.
HasTextHtmlAnyCase(r) ==
    /\ r.headers[ContentType] # <<>>
    /\ Includes(LowerText(HeadersGet(r.headers, ContentType)), <<"t","e","x","t","/","h","t","m","l">>)

\* What a response carries, without its identity.
Carried(r) ==
    [status |-> r.status, statusText |-> r.statusText,
     headers |-> r.headers, body |-> r.body]

\* Invocation i called the sub-application collaborator: createApp, and
\* app.fetch of the application it gave.
SubAppCalled(i) == createAppCalls[i] + appFetchCalls[i] > 0

\* Delegations of invocation i to the sub-application: each starts with
\* createApp(env) and goes on to app.fetch when createApp returns.
Dispatches(i) == createAppCalls[i]

\* Invocation i has received an asset response.
AssetAnswered(i) ==
    pc[i] = "done" /\ assetCalls[i] > 0 /\ collab[i].kind = "response"

\* Invocation i has received a response of the application.
AppAnswered(i) ==
    pc[i] = "done" /\ appFetchCalls[i] > 0 /\ collab[i].kind = "response"

\* The delegation of invocation i to the sub-application failed.
DelegationFailed(i) ==
    /\ pc[i] = "done"
    /\ createAppCalls[i] > 0
    /\ collab[i].kind \in {"createAppThrew", "fetchThrew", "rejected"}

\* The result of invocation i is the 500 "API Error" response.
IsApiErrorResult(i) ==
    /\ result[i].kind = "returned"
    /\ result[i].resp.status = 500
    /\ result[i].resp.body = "API Error"

\* C1: once an invocation has started, it has called the sub-application
\* collaborator iff its URL path starts with /api/ (case-sensitive), it has
\* called the asset collaborator iff the path does not, and never both.
C1_RoutingByPrefix ==
    \A i \in Invocations :
        pc[i] # "idle" =>
            /\ SubAppCalled(i) <=> UnderApi(i)
            /\ (assetCalls[i] > 0) <=> ~UnderApi(i)
            /\ ~(SubAppCalled(i) /\ assetCalls[i] > 0)

\* C1 witness: a request for /apix went to the asset collaborator alone.
C1_Witness_ApixToAssets ==
    \E i \in Invocations :
        /\ pc[i] = "done"
        /\ request[i] = Origin \o <<"/","a","p","i","x">>
        /\ assetCalls[i] = 1
        /\ ~SubAppCalled(i)

\* C2: whenever delegation to the sub-application failed (createApp threw,
\* app.fetch threw, or its promise was rejected) the invocation returned the
\* 500 "API Error" response and threw nothing.
C2_FailureGives500 ==
    \A i \in Invocations : DelegationFailed(i) => IsApiErrorResult(i)

\* C3: an asset response whose content-type contains text/html in any letter
\* case is returned with Content-Security-Policy equal to the fixed value and
\* with the status, status text and body of the asset response.
C3_HtmlAnyCaseGetsCsp ==
    \A i \in Invocations :
        (AssetAnswered(i) /\ HasTextHtmlAnyCase(collab[i].resp)) =>
            /\ result[i].kind = "returned"
            /\ result[i].resp.headers[ContentSecurityPolicy] = <<CspValue>>
            /\ result[i].resp.status = collab[i].resp.status
            /\ result[i].resp.statusText = collab[i].resp.statusText
            /\ result[i].resp.body = collab[i].resp.body

\* C4: an asset response whose content-type does not contain text/html, or
\* is absent, is returned itself: the same object, with the same status,
\* headers and body.
C4_NonHtmlReturnedItself ==
    \A i \in Invocations :
        (AssetAnswered(i) /\ ~HasTextHtml(collab[i].resp)) =>
            /\ result[i].kind = "returned"
            /\ result[i].resp = collab[i].resp

\* C4 witness: an asset response of type text/htm that carried a
\* Content-Security-Policy of its own was returned itself.
C4_Witness_NearMissReturned ==
    \E i \in Invocations :
        /\ AssetAnswered(i)
        /\ collab[i].resp.headers[ContentType] = << <<"t","e","x","t","/","h","t","m">> >>
        /\ collab[i].resp.headers[ContentSecurityPolicy] # <<>>
        /\ result[i].resp.id = [inv |-> i, site |-> "ASSETS.fetch"]

\* C5: when an asset response with text/html in its content-type is
\* rewritten, every header other than Content-Security-Policy keeps its
\* values, none is added or dropped, and Content-Security-Policy has exactly
\* one value, the fixed one.
C5_RewriteKeepsOtherHeaders ==
    \A i \in Invocations :
        (AssetAnswered(i) /\ HasTextHtml(collab[i].resp)) =>
            /\ result[i].kind = "returned"
            /\ \A n \in HeaderNames \ {ContentSecurityPolicy} :
                   result[i].resp.headers[n] = collab[i].resp.headers[n]
            /\ result[i].resp.headers[ContentSecurityPolicy] = <<CspValue>>

\* C5 witness: an HTML asset response with two Content-Security-Policy values
\* and a cache-control header was rewritten.
C5_Witness_PriorCspReplaced ==
    \E i \in Invocations :
        /\ AssetAnswered(i)
        /\ HasTextHtml(collab[i].resp)
        /\ Len(collab[i].resp.headers[ContentSecurityPolicy]) = 2
        /\ collab[i].resp.headers[CacheControl] # <<>>
        /\ result[i].resp.id = [inv |-> i, site |-> "new Response:17"]
        /\ Len(result[i].resp.headers[ContentSecurityPolicy]) = 1

\* C6: every invocation that has completed has returned a response; none has
\* ended in a failure thrown to the caller.
C6_CompletesWithResponse ==
    \A i \in Invocations : pc[i] = "done" => result[i].kind = "returned"

\* C7: an invocation that has not started has made no downstream call; from
\* its start on, and so when its response is returned, it has made exactly
\* one: one asset fetch or one dispatch to the sub-application (createApp and,
\* when that returns, one app.fetch).
C7_OneDownstreamCall ==
    \A i \in Invocations :
        /\ pc[i] = "idle" =>
               assetCalls[i] + createAppCalls[i] + appFetchCalls[i] = 0
        /\ pc[i] # "idle" =>
               /\ assetCalls[i] + Dispatches(i) = 1
               /\ appFetchCalls[i] <= Dispatches(i)
        /\ result[i].kind # "none" => assetCalls[i] + Dispatches(i) = 1

\* C7 witness: an invocation returned the 500 response after one dispatch
\* in which app.fetch threw.
C7_Witness_FailurePathOneCall ==
    \E i \in Invocations :
        /\ pc[i] = "done"
        /\ IsApiErrorResult(i)
        /\ collab[i].kind = "fetchThrew"
        /\ appFetchCalls[i] = 1
        /\ assetCalls[i] = 0

\* C8: a completed invocation has emitted exactly one diagnostic if its
\* delegation to the sub-application failed, and none otherwise.
C8_DiagnosticIffFailure ==
    \A i \in Invocations :
        pc[i] = "done" =>
            Len(console[i]) = (IF DelegationFailed(i) THEN 1 ELSE 0)

\* C9: two completed invocations with the same request URL and the same
\* collaborator outcome (the same response carried, or the same failure)
\* have the same result: both returned responses carrying the same status,
\* status text, headers and body, or both threw the same error.
C9_SameInputsSameResult ==
    \A i, j \in Invocations :
        ( /\ pc[i] = "done" /\ pc[j] = "done"
          /\ request[i] = request[j]
          /\ collab[i].kind = collab[j].kind
          /\ collab[i].error = collab[j].error
          /\ Carried(collab[i].resp) = Carried(collab[j].resp) )
        => /\ result[i].kind = result[j].kind
           /\ result[i].error = result[j].error
           /\ Carried(result[i].resp) = Carried(result[j].resp)

\* C9 witness: two invocations got the same HTML asset response for the same
\* URL, and each returned a rewritten response of its own.
C9_Witness_TwoRewrites ==
    \E i, j \in Invocations :
        /\ i # j
        /\ AssetAnswered(i) /\ AssetAnswered(j)
        /\ request[i] = request[j]
        /\ Carried(collab[i].resp) = Carried(collab[j].resp)
        /\ HasTextHtml(collab[i].resp)
        /\ result[i].resp.id # result[j].resp.id

\* C10: a response of the application is returned itself, the same object
\* with the same status, headers and body, whatever its content-type, and
\* no diagnostic is emitted.
C10_AppResponseVerbatim ==
    \A i \in Invocations :
        AppAnswered(i) =>
            /\ result[i].kind = "returned"
            /\ result[i].resp = collab[i].resp
            /\ console[i] = <<>>

\* C10 witness: the application answered with text/html and no
\* Content-Security-Policy, and the response returned has none.
C10_Witness_HtmlFromAppUntouched ==
    \E i \in Invocations :
        /\ AppAnswered(i)
        /\ HasTextHtml(collab[i].resp)
        /\ collab[i].resp.headers[ContentSecurityPolicy] = <<>>
        /\ result[i].resp.headers[ContentSecurityPolicy] = <<>>

====
